---------------------------- MODULE Spec2Model ----------------------------
(***************************************************************************)
(* The K-Hop neighbourhood graph explorer of sql-agent-api:                *)
(* app/tools/database_graph.py (class DatabaseGraph) over the schema       *)
(* catalog of app/core/database.py (db_manager).                           *)
(*                                                                         *)
(* The database schema (the catalog) is the environment: it is chosen in   *)
(* Init and never changes.  The program state is the DatabaseGraph         *)
(* singleton.  Every public method is one action; a method runs without    *)
(* suspension (initialize awaits only coroutines that never yield), so an  *)
(* action is the whole call and calls happen one at a time.  `last` is the *)
(* call that has just run, with its arguments and what it returned, until  *)
(* the caller takes the value (Return) and may call again.                 *)
(***************************************************************************)
EXTENDS Integers, Sequences, FiniteSets, TLC

VARIABLES
    catalog,          \* the FK rows the database declares, in catalog order
    graph,            \* self.graph: table -> <<(to_table, relationship)>>
    reverse_graph,    \* self.reverse_graph: table -> <<(from_table, mirror)>>
    table_metadata,   \* self.table_metadata: table -> metadata record
    relationships,    \* self.relationships: list of forward relationships
    initialized,      \* self.initialized
    last              \* the call that just ran (arguments, returned value), or Idle

vars == <<catalog, graph, reverse_graph, table_metadata, relationships,
          initialized, last>>

----------------------------------------------------------------------------
(* Bounds of the model. *)

\* at most this many FK rows of FKPool are declared by the database
MaxFKs == 3
\* get_k_hop_neighbors is called with k in -1..MaxK
MaxK == 2
\* get_k_hop_neighbors is called with max_neighbors_per_level in 0..MaxCap
MaxCap == 2
\* get_path_between_tables is called with max_depth in 0..MaxDepth
MaxDepth == 3

\* max_tables of the ranking call ranges over 0..MaxTables
MaxTables == 2

----------------------------------------------------------------------------
(* Python values. *)

\* Python's None (a missing dict key read with .get)
None == "None"

\* an empty dict / defaultdict
EmptyMap == [x \in {} |-> <<>>]

\* d[k] = v
Put(d, k, v) == [x \in (DOMAIN d) \cup {k} |-> IF x = k THEN v ELSE d[x]]

\* defaultdict(list): d[k].append(e) creates the key on first use
AppendAt(d, k, e) ==
    Put(d, k, Append(IF k \in DOMAIN d THEN d[k] ELSE <<>>, e))

\* s[:m], Python slice semantics (a negative m counts from the end)
SlicePrefix(s, m) ==
    LET n == IF m >= 0 THEN (IF m < Len(s) THEN m ELSE Len(s))
                       ELSE (IF Len(s) + m > 0 THEN Len(s) + m ELSE 0)
    IN  SubSeq(s, 1, n)

----------------------------------------------------------------------------
(* The schema catalog (db_manager), the environment of the graph. *)

\* inspector.get_table_names()
CatalogTables == <<"clients", "orders", "orders_lines", "products">>

\* a table FK rows may refer to although get_all_tables does not list it
UnlistedTable == "audit_log"

ListedNames == {CatalogTables[i] : i \in DOMAIN CatalogTables}

TableNames == ListedNames \cup {UnlistedTable}

FKRow(t, cc, rt, rc) ==
    [table |-> t, constrained_columns |-> cc,
     referred_table |-> rt, referred_columns |-> rc]

\* The FK rows a database of the model may declare: the
\* orders/clients/orders_lines/products schema, a second FK between the same
\* two tables, a self-reference, a triangle, a reference to an unlisted
\* table, and the three malformed shapes, each of them ahead of well-formed
\* rows of its own table.
FKPool ==
    << FKRow("orders", <<"legacy_id">>, None, <<"id">>),
       FKRow("orders", <<"client_id">>, "clients", <<"id">>),
       FKRow("orders_lines", <<>>, "orders", <<"id">>),
       FKRow("orders_lines", <<"stock_id">>, "products", <<>>),
       FKRow("orders_lines", <<"order_id">>, "orders", <<"id">>),
       FKRow("orders_lines", <<"product_id">>, "products", <<"id">>),
       FKRow("orders", <<"billing_client_id">>, "clients", <<"id">>),
       FKRow("clients", <<"referrer_id">>, "clients", <<"id">>),
       FKRow("orders_lines", <<"client_id">>, "clients", <<"id">>),
       FKRow("orders", <<"audit_id">>, UnlistedTable, <<"id">>) >>

RECURSIVE PoolRows(_, _)
\* the rows of FKPool whose index is in S, from index i on, in pool order
PoolRows(S, i) ==
    IF i > Len(FKPool) THEN <<>>
    ELSE (IF i \in S THEN <<FKPool[i]>> ELSE <<>>) \o PoolRows(S, i + 1)

Catalogs ==
    {PoolRows(S, 1) : S \in {X \in SUBSET (DOMAIN FKPool) : Cardinality(X) <= MaxFKs}}

\* TABLE_ROWS of information_schema.TABLES
RowEstimate ==
    [t \in ListedNames |->
        CASE t = "clients" -> 3
          [] t = "orders" -> 2
          [] t = "orders_lines" -> 2
          [] OTHER -> 0]

\* len(inspector.get_columns(t))
ColumnCount ==
    [t \in ListedNames |->
        CASE t = "clients" -> 3
          [] t = "orders" -> 5
          [] t = "orders_lines" -> 4
          [] OTHER -> 2]

\* db_manager.db_type of the deployment the estimates above are read from
db_type == "mysql"

\* the row-count estimate of _add_table_metadata: 0 unless the database is
\* MySQL (a NULL estimate also reads as 0)
estimate_row_count(table_name) ==
    IF db_type = "mysql" THEN RowEstimate[table_name] ELSE 0

\* db_manager.get_all_tables()
get_all_tables == CatalogTables

\* db_manager.get_foreign_keys(table_name): the table's rows, catalog order
get_foreign_keys(table_name) ==
    SelectSeq(catalog, LAMBDA fk : fk.table = table_name)

\* A build meets at most one failing catalog call: listing the tables,
\* fetching one table's schema, or fetching one table's foreign keys.
NoFault == [kind |-> "none", table |-> None]

Faults ==
    {NoFault, [kind |-> "list", table |-> None]}
    \cup {[kind |-> "schema", table |-> t] : t \in ListedNames}
    \cup {[kind |-> "fks", table |-> t] : t \in ListedNames}


----------------------------------------------------------------------------
(* DatabaseGraph.__init__ *)

\* no call is running and no returned value is waiting for the caller
Idle == [op |-> "idle"]

Init ==
    /\ catalog \in Catalogs
    /\ graph = EmptyMap
    /\ reverse_graph = EmptyMap
    /\ table_metadata = EmptyMap
    /\ relationships = <<>>
    /\ initialized = FALSE
    /\ last = Idle

----------------------------------------------------------------------------
(* DatabaseGraph.initialize and its helpers.  The three structures the     *)
(* relationship discovery appends to travel together as one record g.      *)

\* _add_table_metadata: a failing schema fetch is caught and logged, and
\* leaves the table without metadata
add_table_metadata(meta, table_name, fault) ==
    IF fault = [kind |-> "schema", table |-> table_name]
    THEN meta
    ELSE Put(meta, table_name,
             [name |-> table_name,
              row_count |-> estimate_row_count(table_name),
              column_count |-> ColumnCount[table_name],
              has_pk |-> TRUE,
              fk_count |-> Len(get_foreign_keys(table_name))])

\* the relationship dict built for one well-formed FK row
Relationship(table_name, fk) ==
    [type |-> "foreign_key",
     from_table |-> table_name,
     from_column |-> fk.constrained_columns[1],
     to_table |-> fk.referred_table,
     to_column |-> fk.referred_columns[1],
     confidence |-> 1,
     cardinality |-> "many_to_one"]
\* Mutation of ReverseRelationship: the copy keeps the cardinality.
ReverseRelationshipUnchanged(relationship) == relationship

\* relationship.copy() with the cardinality of the reverse direction
ReverseRelationship(relationship) ==
    [relationship EXCEPT !.cardinality = "one_to_many"]

\* Mutation of add_foreign_key: the mirror is appended to the relationship
\* list as well, so that every FK is counted twice.
add_foreign_key_counting_mirror(g, table_name, fk) ==
    IF fk.referred_table = None
    THEN g
    ELSE IF fk.constrained_columns = <<>> \/ fk.referred_columns = <<>>
    THEN g
    ELSE LET relationship == Relationship(table_name, fk)
             mirror == ReverseRelationship(relationship)
         IN  [graph |-> AppendAt(g.graph, table_name,
                                 <<fk.referred_table, relationship>>),
              reverse_graph |-> AppendAt(g.reverse_graph, fk.referred_table,
                                 <<table_name, mirror>>),
              relationships |-> Append(Append(g.relationships, relationship),
                                       mirror)]

\* the body of the loop over fks in _discover_relationships
add_foreign_key(g, table_name, fk) ==
    IF fk.referred_table = None
    THEN g
    ELSE IF fk.constrained_columns = <<>> \/ fk.referred_columns = <<>>
    THEN g
    ELSE LET relationship == Relationship(table_name, fk)
         IN  [graph |-> AppendAt(g.graph, table_name,
                                 <<fk.referred_table, relationship>>),
              reverse_graph |-> AppendAt(g.reverse_graph, fk.referred_table,
                                 <<table_name, ReverseRelationship(relationship)>>),
              relationships |-> Append(g.relationships, relationship)]

RECURSIVE add_foreign_keys_stopping(_, _, _, _)
\* Mutation of add_foreign_keys: a malformed row ends the loop (a return
\* where the code has continue).
add_foreign_keys_stopping(g, table_name, fks, i) ==
    IF i > Len(fks) THEN g
    ELSE IF \/ fks[i].referred_table = None
            \/ fks[i].constrained_columns = <<>>
            \/ fks[i].referred_columns = <<>>
    THEN g
    ELSE add_foreign_keys_stopping(add_foreign_key(g, table_name, fks[i]),
                                   table_name, fks, i + 1)

RECURSIVE add_foreign_keys(_, _, _, _)
\* for fk in fks, from the i-th on
add_foreign_keys(g, table_name, fks, i) ==
    IF i > Len(fks) THEN g
    ELSE add_foreign_keys(add_foreign_key(g, table_name, fks[i]),
                          table_name, fks, i + 1)

\* _discover_relationships: a failing get_foreign_keys is caught and logged
discover_relationships(g, table_name, fault) ==
    IF fault = [kind |-> "fks", table |-> table_name]
    THEN g
    ELSE add_foreign_keys(g, table_name, get_foreign_keys(table_name), 1)

RECURSIVE add_all_metadata(_, _, _, _)
\* for table in tables: await self._add_table_metadata(table)
add_all_metadata(meta, tables, i, fault) ==
    IF i > Len(tables) THEN meta
    ELSE add_all_metadata(add_table_metadata(meta, tables[i], fault),
                          tables, i + 1, fault)

RECURSIVE discover_all_aborting(_, _, _, _)
\* Mutation of discover_all: a failing get_foreign_keys ends the loop, the
\* tables after the failing one are never visited.
discover_all_aborting(g, tables, i, fault) ==
    IF i > Len(tables) THEN g
    ELSE IF fault = [kind |-> "fks", table |-> tables[i]] THEN g
    ELSE discover_all_aborting(discover_relationships(g, tables[i], fault),
                               tables, i + 1, fault)

RECURSIVE discover_all(_, _, _, _)
\* for table in tables: await self._discover_relationships(table)
discover_all(g, tables, i, fault) ==
    IF i > Len(tables) THEN g
    ELSE discover_all(discover_relationships(g, tables[i], fault),
                      tables, i + 1, fault)

\* the number of catalog calls one build makes: the table list, and per
\* table its schema and its foreign keys
BuildCatalogCalls == 1 + 2 * Len(CatalogTables)

\* Mutation of already_initialized: the guard is missing.
never_initialized == FALSE

\* the guard at the top of initialize: a built graph is never built again
already_initialized == initialized

\* initialize(): no-op when already initialized; re-raises when listing the
\* tables fails (nothing has been written yet); otherwise builds the graph
Initialize ==
    /\ last = Idle
    /\ \E fault \in Faults :
        IF already_initialized
        THEN /\ last' = [op |-> "initialize", built |-> FALSE, raised |-> FALSE,
                         fault |-> NoFault, catalog_calls |-> 0]
             /\ UNCHANGED <<catalog, graph, reverse_graph, table_metadata,
                            relationships, initialized>>
        ELSE IF fault.kind = "list"
        THEN /\ last' = [op |-> "initialize", built |-> FALSE, raised |-> TRUE,
                         fault |-> fault, catalog_calls |-> 1]
             /\ UNCHANGED <<catalog, graph, reverse_graph, table_metadata,
                            relationships, initialized>>
        ELSE LET tables == get_all_tables
                 g == discover_all([graph |-> graph,
                                    reverse_graph |-> reverse_graph,
                                    relationships |-> relationships],
                                   tables, 1, fault)
             IN  /\ table_metadata' =
                        add_all_metadata(table_metadata, tables, 1, fault)
                 /\ graph' = g.graph
                 /\ reverse_graph' = g.reverse_graph
                 /\ relationships' = g.relationships
                 /\ initialized' = TRUE
                 /\ last' = [op |-> "initialize", built |-> TRUE, raised |-> FALSE,
                             fault |-> fault, catalog_calls |-> BuildCatalogCalls]
                 /\ UNCHANGED catalog

----------------------------------------------------------------------------
(* DatabaseGraph.get_k_hop_neighbors.  The BFS state b holds the locals of *)
(* the loop: visited, queue, neighbors_by_level; b.expansions logs, for    *)
(* each node the loop expanded, what the iteration saw and recorded.       *)

\* the sort key: self.table_metadata.get(x[0], {}).get("row_count", 0)
row_count_key(x) ==
    IF x[1] \in DOMAIN table_metadata THEN table_metadata[x[1]].row_count ELSE 0

\* x put into s, which is sorted by descending key, behind every element
\* whose key is at least its own (a stable sort keeps equal keys in order)
InsertSorted(s, x) ==
    LET p == Cardinality({i \in DOMAIN s : row_count_key(s[i]) >= row_count_key(x)})
    IN  SubSeq(s, 1, p) \o <<x>> \o SubSeq(s, p + 1, Len(s))

RECURSIVE SortedFrom(_, _, _)
SortedFrom(s, i, acc) ==
    IF i > Len(s) THEN acc ELSE SortedFrom(s, i + 1, InsertSorted(acc, s[i]))

\* sorted(direct_neighbors, key=row_count, reverse=True)
sorted_by_row_count(s) == SortedFrom(s, 1, <<>>)
\* d[k] on a defaultdict(list), the dict after the read: a missing key has
\* been created with an empty list
after_getitem(d, k) == IF k \in DOMAIN d THEN d ELSE Put(d, k, <<>>)

\* Mutation of after_guarded_getitem: the "in" test is missing.
after_unguarded_getitem(d, k) == after_getitem(d, k)

\* if k in d: ... d[k] ..., the dict after the statement
after_guarded_getitem(d, k) ==
    IF k \in DOMAIN d THEN after_getitem(d, k) ELSE d

RECURSIVE after_lookups(_, _, _)
\* the dict after the guarded reads of the keys tables[i], tables[i+1], ...
after_lookups(d, tables, i) ==
    IF i > Len(tables) THEN d
    ELSE after_lookups(after_guarded_getitem(d, tables[i]), tables, i + 1)
\* Mutation of direct_neighbors_of: reverse edges are followed whatever the
\* flag says.
direct_neighbors_both_ways(current_table, bidirectional) ==
    (IF current_table \in DOMAIN graph THEN graph[current_table] ELSE <<>>)
    \o (IF current_table \in DOMAIN reverse_graph
        THEN reverse_graph[current_table] ELSE <<>>)

\* Mutation of direct_neighbors_of: reverse edges are never followed.
direct_neighbors_forward_only(current_table, bidirectional) ==
    IF current_table \in DOMAIN graph THEN graph[current_table] ELSE <<>>

\* forward edges always, reverse edges when bidirectional
direct_neighbors_of(current_table, bidirectional) ==
    (IF current_table \in DOMAIN graph THEN graph[current_table] ELSE <<>>)
    \o (IF bidirectional /\ current_table \in DOMAIN reverse_graph
        THEN reverse_graph[current_table] ELSE <<>>)
\* Mutation of limit_neighbors: the first candidates are kept, unsorted.
limit_neighbors_first_come(direct_neighbors, max_neighbors_per_level) ==
    SlicePrefix(direct_neighbors, max_neighbors_per_level)

\* Mutation of limit_neighbors: no cap is applied.
limit_neighbors_uncapped(direct_neighbors, max_neighbors_per_level) ==
    direct_neighbors

\* the fan-out cap: more candidates than the cap are sorted and cut
limit_neighbors(direct_neighbors, max_neighbors_per_level) ==
    IF Len(direct_neighbors) > max_neighbors_per_level
    THEN SlicePrefix(sorted_by_row_count(direct_neighbors), max_neighbors_per_level)
    ELSE direct_neighbors

\* Mutation of depth_limit_reached: the bound is tested one level late.
depth_limit_off_by_one(level, k) == level > k

\* if level >= k: continue
depth_limit_reached(level, k) == level >= k

\* Mutation of not_visited: the visited set is not consulted.
not_visited_ignored(neighbor_table, visited) == TRUE

\* if neighbor_table not in visited
not_visited(neighbor_table, visited) == neighbor_table \notin visited

RECURSIVE visit_neighbors(_, _, _, _)
\* for neighbor_table, rel_info in direct_neighbors, from the i-th on
visit_neighbors(b, neighbors, i, level) ==
    IF i > Len(neighbors) THEN b
    ELSE LET neighbor_table == neighbors[i][1]
             rel_info == neighbors[i][2]
             next_level == level + 1
         IN  IF not_visited(neighbor_table, b.visited)
             THEN visit_neighbors(
                    [b EXCEPT
                       !.visited = @ \cup {neighbor_table},
                       !.neighbors_by_level =
                            AppendAt(@, next_level, <<neighbor_table, rel_info>>),
                       !.queue = Append(@, [table |-> neighbor_table,
                                            level |-> next_level,
                                            relationship |-> rel_info]),
                       !.recorded = Append(@, neighbor_table)],
                    neighbors, i + 1, level)
             ELSE visit_neighbors(b, neighbors, i + 1, level)
RECURSIVE k_hop_loop_marking_dropped(_, _, _, _)
\* Mutation of k_hop_loop: every candidate of an expanded node is marked
\* visited, the ones the cap dropped included.
k_hop_loop_marking_dropped(b, k, bidirectional, max_neighbors_per_level) ==
    IF b.queue = <<>> THEN b
    ELSE LET current == Head(b.queue)
             popped == [b EXCEPT !.queue = Tail(@), !.recorded = <<>>,
                                 !.iterations = @ + 1]
         IN  IF depth_limit_reached(current.level, k)
             THEN k_hop_loop_marking_dropped(popped, k, bidirectional,
                                             max_neighbors_per_level)
             ELSE LET direct == direct_neighbors_of(current.table, bidirectional)
                      kept == limit_neighbors(direct, max_neighbors_per_level)
                      after == visit_neighbors(popped, kept, 1, current.level)
                  IN  k_hop_loop_marking_dropped(
                        [after EXCEPT
                           !.visited = @ \cup {direct[i][1] : i \in DOMAIN direct},
                           !.expansions =
                            Append(@, [parent |-> current.table,
                                       level |-> current.level,
                                       candidates |-> direct,
                                       kept |-> kept,
                                       recorded |-> after.recorded])],
                        k, bidirectional, max_neighbors_per_level)

RECURSIVE k_hop_loop(_, _, _, _)
\* while queue: ...
k_hop_loop(b, k, bidirectional, max_neighbors_per_level) ==
    IF b.queue = <<>> THEN b
    ELSE LET current == Head(b.queue)
             popped == [b EXCEPT !.queue = Tail(@), !.recorded = <<>>,
                                 !.iterations = @ + 1]
         IN  IF depth_limit_reached(current.level, k)
             THEN k_hop_loop(popped, k, bidirectional, max_neighbors_per_level)
             ELSE LET direct == direct_neighbors_of(current.table, bidirectional)
                      kept == limit_neighbors(direct, max_neighbors_per_level)
                      after == visit_neighbors(popped, kept, 1, current.level)
                  IN  k_hop_loop(
                        [after EXCEPT !.expansions =
                            Append(@, [parent |-> current.table,
                                       level |-> current.level,
                                       candidates |-> direct,
                                       kept |-> kept,
                                       recorded |-> after.recorded])],
                        k, bidirectional, max_neighbors_per_level)

\* Mutation of start_table_known: the start table is not looked up.
start_table_unchecked(start_table) == TRUE

\* if start_table not in self.table_metadata: return {}
start_table_known(start_table) == start_table \in DOMAIN table_metadata

\* get_k_hop_neighbors(start_table, k, bidirectional, max_neighbors_per_level):
\* .result is the returned dict, .expansions the log of the loop and
\* .iterations the number of passes of the loop
get_k_hop_neighbors(start_table, k, bidirectional, max_neighbors_per_level) ==
    IF ~initialized
    THEN [result |-> EmptyMap, expansions |-> <<>>, iterations |-> 0]
    ELSE IF ~start_table_known(start_table)
    THEN [result |-> EmptyMap, expansions |-> <<>>, iterations |-> 0]
    ELSE LET b == k_hop_loop(
                    [visited |-> {start_table},
                     queue |-> <<[table |-> start_table, level |-> 0,
                                  relationship |-> None]>>,
                     neighbors_by_level |-> EmptyMap,
                     recorded |-> <<>>,
                     expansions |-> <<>>,
                     iterations |-> 0],
                    k, bidirectional, max_neighbors_per_level)
         IN  [result |-> b.neighbors_by_level, expansions |-> b.expansions,
              iterations |-> b.iterations]
\* the tables whose adjacency lists the loop read, in the order it read them
expanded_tables(expansions) ==
    [i \in DOMAIN expansions |-> expansions[i].parent]

GetKHopNeighbors ==
    /\ last = Idle
    /\ \E start_table \in TableNames, k \in (-1)..MaxK, bidirectional \in BOOLEAN,
       max_neighbors_per_level \in 0..MaxCap :
        LET r == get_k_hop_neighbors(start_table, k, bidirectional,
                                     max_neighbors_per_level)
        IN  /\ last' = [op |-> "get_k_hop_neighbors",
                        start_table |-> start_table, k |-> k,
                        bidirectional |-> bidirectional,
                        max_neighbors_per_level |-> max_neighbors_per_level,
                        result |-> r.result,
                        expansions |-> r.expansions,
                        iterations |-> r.iterations]
            /\ graph' = after_lookups(graph, expanded_tables(r.expansions), 1)
            /\ reverse_graph' =
                   IF bidirectional
                   THEN after_lookups(reverse_graph,
                                      expanded_tables(r.expansions), 1)
                   ELSE reverse_graph
            /\ UNCHANGED <<catalog, table_metadata, relationships, initialized>>

----------------------------------------------------------------------------
(* DatabaseGraph.get_path_between_tables.  A queue entry is (table, path). *)
(* The returned value is Optional[List]: NotFound is None, Found(p) is the *)
(* list p, which may be empty.                                             *)

NotFound == [found |-> FALSE, path |-> <<>>]

Found(path) == [found |-> TRUE, path |-> path]

\* Mutation of new_path: the path accumulated so far is dropped.
new_path_forgetting(path, rel_info) == <<rel_info>>

\* new_path = path + [rel_info]
new_path(path, rel_info) == Append(path, rel_info)
\* Mutation of path_depth_reached: the bound is tested one edge late.
path_depth_off_by_one(path, max_depth) == Len(path) > max_depth

\* if len(path) >= max_depth: continue
path_depth_reached(path, max_depth) == Len(path) >= max_depth

\* Mutation of path_tables_known: only the origin is looked up.
path_origin_known(table_a, table_b) == table_a \in DOMAIN table_metadata

\* if table_a not in self.table_metadata or table_b not in self.table_metadata
path_tables_known(table_a, table_b) ==
    table_a \in DOMAIN table_metadata /\ table_b \in DOMAIN table_metadata

RECURSIVE enqueue_neighbors(_, _, _, _)
\* for neighbor_table, rel_info in neighbors, from the i-th on
enqueue_neighbors(b, neighbors, i, path) ==
    IF i > Len(neighbors) THEN b
    ELSE LET neighbor_table == neighbors[i][1]
             rel_info == neighbors[i][2]
         IN  IF neighbor_table \notin b.visited
             THEN enqueue_neighbors(
                    [b EXCEPT
                       !.visited = @ \cup {neighbor_table},
                       !.queue = Append(@, [table |-> neighbor_table,
                                            path |-> new_path(path, rel_info)]),
                       !.enqueued = Append(@, neighbor_table)],
                    neighbors, i + 1, path)
             ELSE enqueue_neighbors(b, neighbors, i + 1, path)

\* what get_path_between_tables hands back: .result is the returned value,
\* the rest is the log of the loop
path_outcome(result, b) ==
    [result |-> result, enqueued |-> b.enqueued, expanded |-> b.expanded,
     iterations |-> b.iterations]

RECURSIVE path_loop(_, _, _)
\* while queue: ...
path_loop(b, table_b, max_depth) ==
    IF b.queue = <<>> THEN path_outcome(NotFound, b)
    ELSE LET current == Head(b.queue)
             popped == [b EXCEPT !.queue = Tail(@), !.iterations = @ + 1]
         IN  IF path_depth_reached(current.path, max_depth)
             THEN path_loop(popped, table_b, max_depth)
             ELSE IF current.table = table_b
             THEN path_outcome(Found(current.path), popped)
             ELSE path_loop(
                    enqueue_neighbors(
                        [popped EXCEPT !.expanded = Append(@, current.table)],
                        direct_neighbors_of(current.table, TRUE),
                        1, current.path),
                    table_b, max_depth)

\* the loop state before the first pass
path_start(table_a) ==
    [visited |-> {table_a},
     queue |-> <<[table |-> table_a, path |-> <<>>]>>,
     enqueued |-> <<>>, expanded |-> <<>>, iterations |-> 0]

\* get_path_between_tables(table_a, table_b, max_depth): .result is a list
\* of relationships, or None
get_path_between_tables(table_a, table_b, max_depth) ==
    IF ~initialized
    THEN path_outcome(NotFound, [path_start(table_a) EXCEPT !.queue = <<>>])
    ELSE IF ~path_tables_known(table_a, table_b)
    THEN path_outcome(NotFound, [path_start(table_a) EXCEPT !.queue = <<>>])
    ELSE path_loop(path_start(table_a), table_b, max_depth)

GetPathBetweenTables ==
    /\ last = Idle
    /\ \E table_a \in TableNames, table_b \in TableNames,
          max_depth \in (-1)..MaxDepth :
        LET r == get_path_between_tables(table_a, table_b, max_depth)
        IN  /\ last' = [op |-> "get_path_between_tables",
                        table_a |-> table_a, table_b |-> table_b,
                        max_depth |-> max_depth,
                        result |-> r.result,
                        enqueued |-> r.enqueued,
                        iterations |-> r.iterations]
            /\ graph' = after_lookups(graph, r.expanded, 1)
            /\ reverse_graph' = after_lookups(reverse_graph, r.expanded, 1)
            /\ UNCHANGED <<catalog, table_metadata, relationships, initialized>>

----------------------------------------------------------------------------
(* The accessors of DatabaseGraph. *)

\* get_all_relationships(): the relationship list itself
get_all_relationships == relationships

GetAllRelationships ==
    /\ last = Idle
    /\ last' = [op |-> "get_all_relationships", result |-> get_all_relationships]
    /\ UNCHANGED <<catalog, graph, reverse_graph, table_metadata,
                   relationships, initialized>>

\* the Optional[Dict] of get_table_info
NoInfo == [found |-> FALSE]

Info(metadata) == [found |-> TRUE, info |-> metadata]

\* get_table_info(table_name): self.table_metadata.get(table_name)
get_table_info(table_name) ==
    IF table_name \in DOMAIN table_metadata
    THEN Info(table_metadata[table_name])
    ELSE NoInfo

GetTableInfo ==
    /\ last = Idle
    /\ \E table_name \in TableNames :
        last' = [op |-> "get_table_info", table_name |-> table_name,
                 result |-> get_table_info(table_name)]
    /\ UNCHANGED <<catalog, graph, reverse_graph, table_metadata,
                   relationships, initialized>>

\* get_connected_tables(table_name): the set behind the returned list,
\* whose order is the set's
get_connected_tables(table_name) ==
    (IF table_name \in DOMAIN graph
     THEN {graph[table_name][i][1] : i \in DOMAIN graph[table_name]}
     ELSE {})
    \cup (IF table_name \in DOMAIN reverse_graph
          THEN {reverse_graph[table_name][i][1] :
                   i \in DOMAIN reverse_graph[table_name]}
          ELSE {})

GetConnectedTables ==
    /\ last = Idle
    /\ \E table_name \in TableNames :
        /\ last' = [op |-> "get_connected_tables", table_name |-> table_name,
                    result |-> get_connected_tables(table_name)]
        /\ graph' = after_guarded_getitem(graph, table_name)
        /\ reverse_graph' = after_guarded_getitem(reverse_graph, table_name)
    /\ UNCHANGED <<catalog, table_metadata, relationships, initialized>>

\* self.table_metadata.keys(): a dict hands out its keys in insertion order,
\* the order in which the build stored the metadata
metadata_keys ==
    SelectSeq(CatalogTables, LAMBDA t : t \in DOMAIN table_metadata)

\* Mutation of connections: the entries of the two adjacency lists are
\* counted, the same table as often as edges lead to it.
connections_counting_edges(table) ==
    Len(IF table \in DOMAIN graph THEN graph[table] ELSE <<>>)
    + Len(IF table \in DOMAIN reverse_graph THEN reverse_graph[table] ELSE <<>>)

\* len(self.get_connected_tables(table))
connections(table) == Cardinality(get_connected_tables(table))

\* x put into a list of (table, n) pairs in descending order of n, behind
\* every pair of at least its n
insert_by_connections(pairs, x) ==
    LET n == Cardinality({i \in DOMAIN pairs : pairs[i][2] >= x[2]})
    IN  SubSeq(pairs, 1, n) \o <<x>> \o SubSeq(pairs, n + 1, Len(pairs))

RECURSIVE sorted_by_connections(_, _, _)
\* sorted([(table, n) ...], key=lambda x: x[1], reverse=True)
sorted_by_connections(tables, i, pairs) ==
    IF i > Len(tables) THEN pairs
    ELSE sorted_by_connections(
            tables, i + 1,
            insert_by_connections(pairs, <<tables[i], connections(tables[i])>>))

\* len(self.relationships) / len(self.table_metadata), a float, kept as the
\* fraction it is the value of; the int 0 when there is no table
avg_connections_per_table ==
    IF table_metadata # EmptyMap
    THEN [numerator |-> Len(relationships),
          denominator |-> Cardinality(DOMAIN table_metadata)]
    ELSE [numerator |-> 0, denominator |-> 1]

\* get_graph_stats()
get_graph_stats ==
    [tables_count |-> Cardinality(DOMAIN table_metadata),
     relationships_count |-> Len(relationships),
     avg_connections_per_table |-> avg_connections_per_table,
     most_connected_tables |->
         SlicePrefix(sorted_by_connections(metadata_keys, 1, <<>>), 5),
     initialized |-> initialized]

GetGraphStats ==
    /\ last = Idle
    /\ last' = [op |-> "get_graph_stats", result |-> get_graph_stats]
    /\ graph' = after_lookups(graph, metadata_keys, 1)
    /\ reverse_graph' = after_lookups(reverse_graph, metadata_keys, 1)
    /\ UNCHANGED <<catalog, table_metadata, relationships, initialized>>

----------------------------------------------------------------------------
(* DatabaseTools.explore_k_hop_neighborhood: the k-hop neighbourhood of a  *)
(* table, scored against the user's query, sorted and cut.  A text the     *)
(* code lowercases, splits or searches is a sequence of characters.        *)

\* the default of get_k_hop_neighbors' max_neighbors_per_level, which the
\* ranking call leaves alone
default_max_neighbors_per_level == 10

UpperCase ==
    <<"A", "B", "C", "D", "E", "F", "G", "H", "I", "J", "K", "L", "M", "N",
      "O", "P", "Q", "R", "S", "T", "U", "V", "W", "X", "Y", "Z">>

LowerCase ==
    <<"a", "b", "c", "d", "e", "f", "g", "h", "i", "j", "k", "l", "m", "n",
      "o", "p", "q", "r", "s", "t", "u", "v", "w", "x", "y", "z">>

Whitespace == {" ", "\t"}

\* the characters of a table name
Characters(name) ==
    CASE name = "clients" ->
            <<"c", "l", "i", "e", "n", "t", "s">>
      [] name = "orders" ->
            <<"o", "r", "d", "e", "r", "s">>
      [] name = "orders_lines" ->
            <<"o", "r", "d", "e", "r", "s", "_", "l", "i", "n", "e", "s">>
      [] name = "products" ->
            <<"p", "r", "o", "d", "u", "c", "t", "s">>
      [] name = "audit_log" ->
            <<"a", "u", "d", "i", "t", "_", "l", "o", "g">>

\* a user_query argument: a str, or None
Text(characters) == [is_none |-> FALSE, text |-> characters]

NoText == [is_none |-> TRUE, text |-> <<>>]

\* "orders orders": the same word twice
QueryOrdersTwice == Text(
    <<"o", "r", "d", "e", "r", "s", " ", "o", "r", "d", "e", "r", "s">>)

\* "Orders \tclients_orders": an upper-case letter, a blank and a tab, and
\* a word that contains table names
QueryMixed == Text(
    <<"O", "r", "d", "e", "r", "s", " ", "\t", "c", "l", "i", "e", "n", "t",
      "s", "_", "o", "r", "d", "e", "r", "s">>)

\* "ord": a word of three letters
QueryShort == Text(<<"o", "r", "d">>)

\* the queries a call may pass
Queries == {QueryOrdersTwice, QueryMixed, QueryShort, NoText}

\* the lower-case letter of every upper-case letter
Lowered ==
    [c \in {UpperCase[j] : j \in DOMAIN UpperCase} |->
        LowerCase[CHOOSE j \in DOMAIN UpperCase : UpperCase[j] = c]]

\* str.lower() of one character
lower_character(c) == IF c \in DOMAIN Lowered THEN Lowered[c] ELSE c

RECURSIVE lower_from(_, _)
\* the lowercased characters of s from the i-th on
lower_from(s, i) ==
    IF i > Len(s) THEN <<>>
    ELSE <<lower_character(s[i])>> \o lower_from(s, i + 1)

\* str.lower()
lower(s) == lower_from(s, 1)

RECURSIVE split(_, _, _)
\* str.split(): the maximal runs of characters that are not whitespace,
\* read from the i-th character on, word being the run read so far
split(s, i, word) ==
    IF i > Len(s)
    THEN (IF word = <<>> THEN <<>> ELSE <<word>>)
    ELSE IF s[i] \in Whitespace
    THEN (IF word = <<>> THEN <<>> ELSE <<word>>) \o split(s, i + 1, <<>>)
    ELSE split(s, i + 1, Append(word, s[i]))

\* a in b, for two str
is_substring(a, b) ==
    \E i \in 0..(Len(b) - Len(a)) : SubSeq(b, i + 1, i + Len(a)) = a

\* query_terms = set(user_query.lower().split())
query_terms(user_query) ==
    LET words == split(lower(user_query.text), 1, <<>>)
    IN  {words[i] : i \in DOMAIN words}
\* Mutation of iteration_orders: the words of the query are iterated as a
\* list, a repeated word as often as it is written.
iteration_orders_of_list(user_query) ==
    IF user_query.is_none THEN {<<>>}
    ELSE {split(lower(user_query.text), 1, <<>>)}

\* the orders in which "for term in query_terms" may hand out the members
\* of the set (none is promised by the language)
iteration_orders(user_query) ==
    IF user_query.is_none THEN {<<>>}
    ELSE LET terms == query_terms(user_query)
         IN  {o \in [1..Cardinality(terms) -> terms] :
                 \A i, j \in DOMAIN o : o[i] = o[j] => i = j}

\* Mutation of term_score: words of three letters count too.
term_score_counting_short(term, table_name) ==
    IF Len(term) >= 3
    THEN (IF is_substring(term, table_name) THEN 50
          ELSE IF is_substring(table_name, term) THEN 30
          ELSE 0)
    ELSE 0

\* what one term adds to the score of a table
term_score(term, table_name) ==
    IF Len(term) > 3
    THEN (IF is_substring(term, table_name) THEN 50
          ELSE IF is_substring(table_name, term) THEN 30
          ELSE 0)
    ELSE 0

RECURSIVE terms_score_first_match(_, _, _)
\* Mutation of terms_score: the loop over the terms ends at the first term
\* that scores.
terms_score_first_match(terms, i, table_name) ==
    IF i > Len(terms) THEN 0
    ELSE IF term_score(terms[i], table_name) > 0
    THEN term_score(terms[i], table_name)
    ELSE terms_score_first_match(terms, i + 1, table_name)

RECURSIVE terms_score(_, _, _)
\* for term in query_terms, from the i-th of the iteration on
terms_score(terms, i, table_name) ==
    IF i > Len(terms) THEN 0
    ELSE term_score(terms[i], table_name) + terms_score(terms, i + 1, table_name)

\* the relevance_score of one flattened neighbor
relevance_score(neighbor, terms) ==
    terms_score(terms, 1, lower(Characters(neighbor.table)))
    - neighbor.level * 10
    + (IF neighbor.relationship.cardinality = "many_to_one" THEN 15 ELSE 0)
    + neighbor.relationship.confidence * 10

\* the all_neighbors entry of one (table, rel_info) pair, not yet scored
flattened(pair, level) ==
    [table |-> pair[1], level |-> level, relationship |-> pair[2],
     relevance_score |-> 0]

RECURSIVE flatten_level(_, _, _)
\* for table, rel_info in neighbors, from the i-th on
flatten_level(neighbors, i, level) ==
    IF i > Len(neighbors) THEN <<>>
    ELSE <<flattened(neighbors[i], level)>>
             \o flatten_level(neighbors, i + 1, level)

RECURSIVE flatten(_, _)
\* for level, neighbors in neighbors_by_level.items(): the dict hands out
\* its keys in insertion order, and the BFS inserted level 1 first
flatten(neighbors_by_level, level) ==
    IF level \notin DOMAIN neighbors_by_level THEN <<>>
    ELSE flatten_level(neighbors_by_level[level], 1, level)
             \o flatten(neighbors_by_level, level + 1)

RECURSIVE scored(_, _, _)
\* the scoring loop over all_neighbors, from the i-th on
scored(all_neighbors, i, terms) ==
    IF i > Len(all_neighbors) THEN <<>>
    ELSE <<[all_neighbors[i] EXCEPT
              !.relevance_score = relevance_score(all_neighbors[i], terms)]>>
             \o scored(all_neighbors, i + 1, terms)

\* Mutation of insert_ranked: a neighbor goes ahead of those of equal score.
insert_ranked_ahead_of_equals(ranked, x) ==
    LET n == Cardinality({i \in DOMAIN ranked :
                             ranked[i].relevance_score > x.relevance_score})
    IN  SubSeq(ranked, 1, n) \o <<x>> \o SubSeq(ranked, n + 1, Len(ranked))

\* x put into a list already in descending score order, behind every entry
\* of at least its score (the sort is stable)
insert_ranked(ranked, x) ==
    LET n == Cardinality({i \in DOMAIN ranked :
                             ranked[i].relevance_score >= x.relevance_score})
    IN  SubSeq(ranked, 1, n) \o <<x>> \o SubSeq(ranked, n + 1, Len(ranked))

RECURSIVE sort_by_relevance(_, _, _)
\* all_neighbors.sort(key=lambda x: x["relevance_score"], reverse=True)
sort_by_relevance(all_neighbors, i, ranked) ==
    IF i > Len(all_neighbors) THEN ranked
    ELSE sort_by_relevance(all_neighbors, i + 1,
                           insert_ranked(ranked, all_neighbors[i]))

\* the "neighbors_by_level" entry of the result
level_breakdown(neighbors_by_level) ==
    [level \in DOMAIN neighbors_by_level |->
        [i \in DOMAIN neighbors_by_level[level] |->
            [table |-> neighbors_by_level[level][i][1],
             relationship |-> neighbors_by_level[level][i][2]]]]

\* Mutation of exception_result: no except clause, the exception leaves
\* the call.
exception_raised(e) == [raised |-> e]

\* except Exception as e: return {"error": str(e)}
exception_result(e) == [error |-> e]

\* explore_k_hop_neighborhood(start_table, user_query, k, max_tables), with
\* the set of query terms iterated in the order terms
explore_k_hop_neighborhood(start_table, user_query, k, max_tables, terms) ==
    LET neighbors_by_level ==
            get_k_hop_neighbors(start_table, k, TRUE,
                                default_max_neighbors_per_level).result
        all_neighbors == flatten(neighbors_by_level, 1)
    IN  IF user_query.is_none
        THEN exception_result("'NoneType' object has no attribute 'lower'")
        ELSE LET ranked == sort_by_relevance(scored(all_neighbors, 1, terms), 1, <<>>)
                 top_neighbors == SlicePrefix(ranked, max_tables)
             IN  [start_table |-> start_table,
                  k |-> k,
                  total_found |-> Len(all_neighbors),
                  returned |-> Len(top_neighbors),
                  neighbors |-> top_neighbors,
                  neighbors_by_level |-> level_breakdown(neighbors_by_level)]

ExploreKHopNeighborhood ==
    /\ last = Idle
    /\ \E user_query \in Queries :
        \E terms \in iteration_orders(user_query) :
            \E start_table \in TableNames, k \in {1, MaxK} :
                LET read == expanded_tables(
                                get_k_hop_neighbors(
                                    start_table, k, TRUE,
                                    default_max_neighbors_per_level).expansions)
                IN  /\ \E max_tables \in 0..MaxTables :
                        last' = [op |-> "explore_k_hop_neighborhood",
                                 start_table |-> start_table,
                                 user_query |-> user_query,
                                 k |-> k, max_tables |-> max_tables,
                                 result |-> explore_k_hop_neighborhood(
                                                start_table, user_query, k,
                                                max_tables, terms)]
                    /\ graph' = after_lookups(graph, read, 1)
                    /\ reverse_graph' = after_lookups(reverse_graph, read, 1)
    /\ UNCHANGED <<catalog, table_metadata, relationships, initialized>>

----------------------------------------------------------------------------
\* an initialize() that has listed the tables and not yet returned
IsRunning == last.op = "initialize_running"

\* the caller takes the returned value (or the raised exception)
Return ==
    /\ last # Idle
    /\ ~IsRunning
    /\ last' = Idle
    /\ UNCHANGED <<catalog, graph, reverse_graph, table_metadata,
                   relationships, initialized>>

Next ==
    \/ Initialize
    \/ GetKHopNeighbors
    \/ GetPathBetweenTables
    \/ GetAllRelationships
    \/ GetTableInfo
    \/ GetConnectedTables
    \/ GetGraphStats
    \/ Return

Spec == Init /\ [][Next]_vars

\* the ranking call over the built graph
NextRank ==
    \/ Initialize
    \/ ExploreKHopNeighborhood
    \/ Return

SpecRank == Init /\ [][NextRank]_vars

\* every operation of the graph and the ranking call
NextAll ==
    \/ Next
    \/ ExploreKHopNeighborhood

SpecAll == Init /\ [][NextAll]_vars

\* the k-hop traversal over the built graph
NextHop ==
    \/ Initialize
    \/ GetKHopNeighbors
    \/ Return

SpecHop == Init /\ [][NextHop]_vars

\* the path search over the built graph
NextPath ==
    \/ Initialize
    \/ GetPathBetweenTables
    \/ Return

SpecPath == Init /\ [][NextPath]_vars

----------------------------------------------------------------------------
(* initialize() statement by statement: the same build, one table of one   *)
(* loop per step, with the position of the running call kept in last.      *)

\* the running call: its loop ("metadata" or "relationships"), the index of
\* the next table of that loop, and the failure the catalog will answer with
Running(phase, i, fault, tables) ==
    [op |-> "initialize_running", phase |-> phase, i |-> i,
     fault |-> fault, tables |-> tables]

\* where the call stands once the metadata of tables[i] has been attempted
after_metadata(i, tables) ==
    IF i < Len(tables)
    THEN [phase |-> "metadata", i |-> i + 1]
    ELSE [phase |-> "relationships", i |-> 1]

\* Mutation of all_tables_processed: the flag is raised as soon as the
\* metadata loop is over.
metadata_loop_over(phase, i, tables) == phase = "relationships"

\* both loops have run to their end
all_tables_processed(phase, i, tables) ==
    phase = "relationships" /\ i > Len(tables)
\* Mutation of StartInitialize: the flag is raised before the loops run.
StartInitializeRaisingFlag ==
    /\ last = Idle
    /\ \E fault \in Faults :
        IF already_initialized
        THEN /\ last' = [op |-> "initialize", built |-> FALSE, raised |-> FALSE,
                         fault |-> NoFault, catalog_calls |-> 0]
             /\ UNCHANGED initialized
        ELSE IF fault.kind = "list"
        THEN /\ last' = [op |-> "initialize", built |-> FALSE, raised |-> TRUE,
                         fault |-> fault, catalog_calls |-> 1]
             /\ UNCHANGED initialized
        ELSE LET tables == get_all_tables
             IN  /\ last' = IF Len(tables) = 0
                            THEN Running("relationships", 1, fault, tables)
                            ELSE Running("metadata", 1, fault, tables)
                 /\ initialized' = TRUE
    /\ UNCHANGED <<catalog, graph, reverse_graph, table_metadata, relationships>>

\* the guard, and tables = db_manager.get_all_tables()
StartInitialize ==
    /\ last = Idle
    /\ \E fault \in Faults :
        IF already_initialized
        THEN last' = [op |-> "initialize", built |-> FALSE, raised |-> FALSE,
                      fault |-> NoFault, catalog_calls |-> 0]
        ELSE IF fault.kind = "list"
        THEN last' = [op |-> "initialize", built |-> FALSE, raised |-> TRUE,
                      fault |-> fault, catalog_calls |-> 1]
        ELSE LET tables == get_all_tables
             IN  last' = IF Len(tables) = 0
                         THEN Running("relationships", 1, fault, tables)
                         ELSE Running("metadata", 1, fault, tables)
    /\ UNCHANGED <<catalog, graph, reverse_graph, table_metadata,
                   relationships, initialized>>

\* one pass of: for table in tables: await self._add_table_metadata(table)
MetadataStep ==
    /\ IsRunning
    /\ last.phase = "metadata"
    /\ table_metadata' =
           add_table_metadata(table_metadata, last.tables[last.i], last.fault)
    /\ LET at == after_metadata(last.i, last.tables)
       IN  last' = Running(at.phase, at.i, last.fault, last.tables)
    /\ UNCHANGED <<catalog, graph, reverse_graph, relationships, initialized>>

\* one pass of: for table in tables: await self._discover_relationships(table)
RelationshipsStep ==
    /\ IsRunning
    /\ last.phase = "relationships"
    /\ last.i <= Len(last.tables)
    /\ LET g == discover_relationships([graph |-> graph,
                                        reverse_graph |-> reverse_graph,
                                        relationships |-> relationships],
                                       last.tables[last.i], last.fault)
       IN  /\ graph' = g.graph
           /\ reverse_graph' = g.reverse_graph
           /\ relationships' = g.relationships
    /\ last' = Running("relationships", last.i + 1, last.fault, last.tables)
    /\ UNCHANGED <<catalog, table_metadata, initialized>>

\* self.initialized = True, and the call returns
FinishInitialize ==
    /\ IsRunning
    /\ all_tables_processed(last.phase, last.i, last.tables)
    /\ initialized' = TRUE
    /\ last' = [op |-> "initialize", built |-> TRUE, raised |-> FALSE,
                fault |-> last.fault, catalog_calls |-> BuildCatalogCalls]
    /\ UNCHANGED <<catalog, graph, reverse_graph, table_metadata,
                   relationships>>

NextBuild ==
    \/ StartInitialize
    \/ MetadataStep
    \/ RelationshipsStep
    \/ FinishInitialize
    \/ Return

SpecBuild == Init /\ [][NextBuild]_vars

----------------------------------------------------------------------------
(* Traversals called by another caller, while initialize() is between two  *)
(* of its steps or when no call is under way.  A traversal is a            *)
(* synchronous method: it runs from its first statement to its return      *)
(* without giving way to the build.                                        *)

\* the (table_a, table_b) pairs the other caller asks a path for
ObservedPairs ==
    {<<"orders_lines", "clients">>, <<"clients", "products">>,
     <<"orders", "orders">>}

\* what last holds once the other caller has its value: the call, beside
\* the position of the running initialize() when there is one
Observed(call) ==
    IF IsRunning
    THEN [op |-> "initialize_running", phase |-> last.phase, i |-> last.i,
          fault |-> last.fault, tables |-> last.tables, observed |-> call]
    ELSE call

\* get_k_hop_neighbors(start_table, k=MaxK, max_neighbors_per_level=MaxCap)
\* called by the other caller
KHopBesideInitialize ==
    /\ IsRunning \/ last = Idle
    /\ \E start_table \in TableNames :
        LET r == get_k_hop_neighbors(start_table, MaxK, TRUE, MaxCap)
        IN  /\ last' = Observed([op |-> "get_k_hop_neighbors",
                                 start_table |-> start_table,
                                 result |-> r.result])
            /\ graph' = after_lookups(graph, expanded_tables(r.expansions), 1)
            /\ reverse_graph' =
                   after_lookups(reverse_graph, expanded_tables(r.expansions), 1)
    /\ UNCHANGED <<catalog, table_metadata, relationships, initialized>>

\* get_path_between_tables(table_a, table_b, max_depth=MaxDepth) called by
\* the other caller
PathBesideInitialize ==
    /\ IsRunning \/ last = Idle
    /\ \E pair \in ObservedPairs :
        LET r == get_path_between_tables(pair[1], pair[2], MaxDepth)
        IN  /\ last' = Observed([op |-> "get_path_between_tables",
                                 table_a |-> pair[1], table_b |-> pair[2],
                                 result |-> r.result])
            /\ graph' = after_lookups(graph, r.expanded, 1)
            /\ reverse_graph' = after_lookups(reverse_graph, r.expanded, 1)
    /\ UNCHANGED <<catalog, table_metadata, relationships, initialized>>

\* the build step by step, and the traversals of the other caller
NextInterleaved ==
    \/ NextBuild
    \/ KHopBesideInitialize
    \/ PathBesideInitialize

SpecInterleaved == Init /\ [][NextInterleaved]_vars

----------------------------------------------------------------------------
(* Vocabulary of the properties. *)

IsInitialize == last.op = "initialize"
IsKHop == last.op = "get_k_hop_neighbors"
IsPath == last.op = "get_path_between_tables"

\* d.get(k, []) on an adjacency map
ListAt(d, k) == IF k \in DOMAIN d THEN d[k] ELSE <<>>

\* how often e occurs in the list s
Count(s, e) == Cardinality({i \in DOMAIN s : s[i] = e})

\* an FK row with a referred table, a constrained and a referred column
WellFormed(fk) ==
    /\ fk.referred_table # None
    /\ fk.constrained_columns # <<>>
    /\ fk.referred_columns # <<>>

\* the forward edge a well-formed FK row stands for, and its mirror
ForwardEdge(fk) ==
    [type |-> "foreign_key", from_table |-> fk.table,
     from_column |-> fk.constrained_columns[1], to_table |-> fk.referred_table,
     to_column |-> fk.referred_columns[1], confidence |-> 1,
     cardinality |-> "many_to_one"]

MirrorEdge(fk) ==
    [type |-> "foreign_key", from_table |-> fk.table,
     from_column |-> fk.constrained_columns[1], to_table |-> fk.referred_table,
     to_column |-> fk.referred_columns[1], confidence |-> 1,
     cardinality |-> "one_to_many"]

\* forward entry once, mirror entry once, relationship list entry once
EdgesOnce(fk) ==
    /\ Count(ListAt(graph, fk.table), <<fk.referred_table, ForwardEdge(fk)>>) = 1
    /\ Count(ListAt(reverse_graph, fk.referred_table),
             <<fk.table, MirrorEdge(fk)>>) = 1
    /\ Count(relationships, ForwardEdge(fk)) = 1
    /\ Count(relationships, MirrorEdge(fk)) = 0

\* The FK graph read as an undirected graph, from the relationship list
\* alone (not from the adjacency maps the traversals use).
Linked(t) ==
    {relationships[i].to_table :
        i \in {j \in DOMAIN relationships : relationships[j].from_table = t}}
    \cup {relationships[i].from_table :
        i \in {j \in DOMAIN relationships : relationships[j].to_table = t}}

RECURSIVE Ball(_, _)
\* the tables within d hops of a
Ball(a, d) ==
    IF d <= 0 THEN {a}
    ELSE LET B == Ball(a, d - 1) IN B \cup UNION {Linked(t) : t \in B}

\* the tables at hop distance exactly d >= 1 from a
Sphere(a, d) == Ball(a, d) \ Ball(a, d - 1)

Diameter == Cardinality(TableNames)

Connected(a, b) == b \in Ball(a, Diameter)

\* the shortest hop distance of two connected tables
HopDistance(a, b) ==
    CHOOSE d \in 0..Diameter : b \in Ball(a, d) /\ (d = 0 \/ b \notin Ball(a, d - 1))

\* the tables a returned level bucket names
BucketTables(bucket) == {bucket[i][1] : i \in DOMAIN bucket}

----------------------------------------------------------------------------
(* C1: the symmetry of the built graph. *)

\* C1 as stated: after initialize() has completed, every well-formed FK the
\* database declares has exactly one forward entry (many_to_one) in the
\* forward adjacency of its table, exactly one mirror entry (one_to_many) in
\* the reverse adjacency of the referred table, and is in the relationship
\* list exactly once, its mirror never.
C1_EveryDeclaredFKOnce ==
    initialized =>
        \A i \in DOMAIN catalog :
            WellFormed(catalog[i]) => EdgesOnce(catalog[i])

\* C1 amended: the same for every well-formed FK row that get_foreign_keys
\* returned during the build, that is for the rows of every table whose
\* foreign-key discovery did not raise.
C1_EveryFetchedFKOnce ==
    (IsInitialize /\ last.built) =>
        \A i \in DOMAIN catalog :
            (/\ WellFormed(catalog[i])
             /\ last.fault # [kind |-> "fks", table |-> catalog[i].table])
            => EdgesOnce(catalog[i])

\* a build that fetched two well-formed FKs between the same two tables
C1_Witness ==
    /\ IsInitialize /\ last.built
    /\ \E i, j \in DOMAIN catalog :
        /\ i # j
        /\ WellFormed(catalog[i]) /\ WellFormed(catalog[j])
        /\ catalog[i].table = catalog[j].table
        /\ catalog[i].referred_table = catalog[j].referred_table
        /\ last.fault # [kind |-> "fks", table |-> catalog[i].table]

----------------------------------------------------------------------------
(* C2: no table is revisited. *)

\* C2: in the mapping get_k_hop_neighbors returns, no table name is in the
\* buckets of two different levels.
C2_OneLevelPerTable ==
    IsKHop =>
        \A L1, L2 \in DOMAIN last.result :
            L1 # L2 =>
                BucketTables(last.result[L1]) \cap BucketTables(last.result[L2]) = {}

\* a two-level result in which a level-1 node met an already visited table
\* again among the candidates it kept (its own parent, a self-reference or a
\* second FK to the same table)
C2_Witness ==
    /\ IsKHop
    /\ {1, 2} \subseteq DOMAIN last.result
    /\ \E i \in DOMAIN last.expansions :
        /\ last.expansions[i].level = 1
        /\ Len(last.expansions[i].kept) > Len(last.expansions[i].recorded)

----------------------------------------------------------------------------
(* C3: the depth bound. *)

\* C3: every level of the returned mapping is between 1 and k, and the
\* mapping is empty for k <= 0.
C3_LevelsWithinDepth ==
    IsKHop =>
        /\ \A L \in DOMAIN last.result : 1 <= L /\ L <= last.k
        /\ last.k <= 0 => last.result = EmptyMap

\* a result that reaches level k while a table lies one hop further
C3_Witness ==
    /\ IsKHop
    /\ last.k >= 1
    /\ last.k \in DOMAIN last.result
    /\ last.bidirectional
    /\ Sphere(last.start_table, last.k + 1) # {}

----------------------------------------------------------------------------
(* C4: the fan-out cap. *)

\* C4: the expansion of one parent records (and enqueues) at most
\* max_neighbors_per_level tables.
C4_FanOutCap ==
    IsKHop =>
        \A i \in DOMAIN last.expansions :
            Len(last.expansions[i].recorded) <= last.max_neighbors_per_level

\* a parent with more candidate edges than the cap, which recorded as many
\* tables as the cap allows
C4_Witness ==
    /\ IsKHop
    /\ last.max_neighbors_per_level >= 1
    /\ \E i \in DOMAIN last.expansions :
        /\ Len(last.expansions[i].candidates) > last.max_neighbors_per_level
        /\ Len(last.expansions[i].recorded) = last.max_neighbors_per_level

----------------------------------------------------------------------------
(* C5: a path within the depth bound is found. *)

\* C5 as stated: on an initialized graph, for tables a # b that both have
\* metadata, if b is within max_depth hops of a (FK edges followed in either
\* direction), get_path_between_tables(a, b, max_depth) returns a path, also
\* when the distance equals max_depth.
C5_PathWithinDepthFound ==
    (/\ IsPath /\ initialized
     /\ last.table_a # last.table_b
     /\ last.table_a \in DOMAIN table_metadata
     /\ last.table_b \in DOMAIN table_metadata
     /\ Connected(last.table_a, last.table_b)
     /\ HopDistance(last.table_a, last.table_b) <= last.max_depth)
    => last.result.found

----------------------------------------------------------------------------
(* C6: a returned path is a shortest one. *)

\* C6: whenever get_path_between_tables returns a path, its number of edges
\* is the shortest hop distance between the two tables.
C6_PathIsShortest ==
    (IsPath /\ last.result.found) =>
        /\ Connected(last.table_a, last.table_b)
        /\ Len(last.result.path) = HopDistance(last.table_a, last.table_b)

\* a returned path of two edges
C6_Witness ==
    /\ IsPath /\ last.result.found
    /\ Len(last.result.path) = 2

----------------------------------------------------------------------------
(* C7: without the cap, the levels are the hop distances. *)

\* no node the traversal expanded had more candidate edges than the cap
CapNeverTriggered ==
    \A i \in DOMAIN last.expansions :
        Len(last.expansions[i].candidates) <= last.max_neighbors_per_level

\* the tables returned at level L are those at hop distance L, for 1..k
LevelsAreHopDistances ==
    \A L \in 1..last.k :
        BucketTables(ListAt(last.result, L)) = Sphere(last.start_table, L)

----------------------------------------------------------------------------
(* C8: get_k_hop_neighbors on a graph that is not ready. *)

\* C8: get_k_hop_neighbors returns the empty mapping whenever the graph is
\* not initialized or start_table has no metadata entry, whatever k,
\* bidirectional and max_neighbors_per_level are.
C8_EmptyWhenNotReady ==
    (IsKHop /\ (~initialized \/ last.start_table \notin DOMAIN table_metadata))
    => last.result = EmptyMap

\* a start table without metadata that FK edges do connect, asked with a
\* depth and a cap that would let it be expanded
C8_Witness ==
    /\ IsKHop /\ initialized
    /\ last.start_table \notin DOMAIN table_metadata
    /\ Linked(last.start_table) # {}
    /\ last.k >= 1 /\ last.max_neighbors_per_level >= 1 /\ last.bidirectional

----------------------------------------------------------------------------
(* C9: get_path_between_tables reports 'not found'. *)

\* C9: get_path_between_tables returns None when the graph is
\* uninitialized, when a or b has no metadata entry, or when b is not
\* within max_depth hops of a.
C9_NotFoundCases ==
    (/\ IsPath
     /\ \/ ~initialized
        \/ last.table_a \notin DOMAIN table_metadata
        \/ last.table_b \notin DOMAIN table_metadata
        \/ ~Connected(last.table_a, last.table_b)
        \/ HopDistance(last.table_a, last.table_b) > last.max_depth)
    => last.result = NotFound

\* two known tables that are connected, but further apart than max_depth
C9_Witness ==
    /\ IsPath /\ initialized
    /\ last.table_a \in DOMAIN table_metadata
    /\ last.table_b \in DOMAIN table_metadata
    /\ Connected(last.table_a, last.table_b)
    /\ last.max_depth >= 1
    /\ HopDistance(last.table_a, last.table_b) > last.max_depth

----------------------------------------------------------------------------
(* C10: initialize is idempotent. *)

\* C10: once the graph is initialized, a further initialize() call leaves
\* the forward adjacency, the reverse adjacency, the metadata map and the
\* relationship list as they are, and makes no catalog call.
C10_InitializeIdempotent ==
    [][(initialized /\ last'.op = "initialize") =>
            /\ graph' = graph
            /\ reverse_graph' = reverse_graph
            /\ table_metadata' = table_metadata
            /\ relationships' = relationships
            /\ initialized'
            /\ last'.catalog_calls = 0]_vars

\* a second initialize() on a built graph that holds edges
C10_Witness ==
    /\ IsInitialize /\ initialized
    /\ ~last.built /\ ~last.raised
    /\ Len(relationships) >= 2


----------------------------------------------------------------------------
(* C11: when the initialized flag is raised. *)

\* the metadata of every listed table is stored unless its schema fetch
\* failed, and every well-formed FK row of every listed table has its edges
\* unless the foreign-key fetch of its table failed
EveryTableAttempted(fault) ==
    /\ \A t \in ListedNames :
           t \in DOMAIN table_metadata \/ fault = [kind |-> "schema", table |-> t]
    /\ \A i \in DOMAIN catalog :
           (/\ WellFormed(catalog[i])
            /\ catalog[i].table \in ListedNames
            /\ fault # [kind |-> "fks", table |-> catalog[i].table])
               => EdgesOnce(catalog[i])

NothingBuilt ==
    /\ graph = EmptyMap
    /\ reverse_graph = EmptyMap
    /\ table_metadata = EmptyMap
    /\ relationships = <<>>

\* C11: while initialize() is still working through the tables the flag is
\* false; the call that raises the flag has attempted the metadata and the
\* relationships of every table the catalog listed; a call that failed to
\* list the tables raised, left the flag false and left every structure
\* empty; and whenever the flag is false outside a running call the
\* structures are empty, so the next initialize() starts clean.
C11_FlagOnlyAfterFullBuild ==
    /\ IsRunning => ~initialized
    /\ (IsInitialize /\ last.built) =>
           initialized /\ EveryTableAttempted(last.fault)
    /\ (IsInitialize /\ last.raised) =>
           last.fault.kind = "list" /\ ~initialized /\ NothingBuilt
    /\ (~initialized /\ ~IsRunning) => NothingBuilt

\* a build that has just raised the flag over a database with a well-formed
\* FK on the last listed table that declares any
C11_Witness ==
    /\ IsInitialize
    /\ last.built
    /\ last.fault = NoFault
    /\ \E i \in DOMAIN catalog :
           catalog[i].table = "orders_lines" /\ WellFormed(catalog[i])

\* initialize() failed on the table list and returned by raising
C11_WitnessRaised ==
    IsInitialize /\ last.raised /\ ~initialized

----------------------------------------------------------------------------
(* C12: a failing foreign-key fetch costs the edges of one table only. *)

\* the well-formed FK rows the catalog declares for table t, catalog order
DeclaredRows(t) ==
    SelectSeq(catalog, LAMBDA fk : fk.table = t /\ WellFormed(fk))

RECURSIVE DeclaredEdges(_, _)
\* the forward edges of the listed tables from the i-th on, table by table,
\* as if table T declared no FK
DeclaredEdges(i, T) ==
    IF i > Len(CatalogTables) THEN <<>>
    ELSE LET rows == IF CatalogTables[i] = T THEN <<>>
                     ELSE DeclaredRows(CatalogTables[i])
         IN  [j \in DOMAIN rows |-> ForwardEdge(rows[j])]
                 \o DeclaredEdges(i + 1, T)

\* the forward adjacency list of t that a list of forward edges amounts to
ForwardListOf(edges, t) ==
    LET own == SelectSeq(edges, LAMBDA e : e.from_table = t)
    IN  [j \in DOMAIN own |-> <<own[j].to_table, own[j]>>]

\* the reverse adjacency list of t that a list of forward edges amounts to
ReverseListOf(edges, t) ==
    LET own == SelectSeq(edges, LAMBDA e : e.to_table = t)
    IN  [j \in DOMAIN own |->
            <<own[j].from_table, [own[j] EXCEPT !.cardinality = "one_to_many"]>>]

\* C12: when get_foreign_keys raised for one table T during the build,
\* initialize() has completed with initialized = true, and the relationship
\* list, every forward adjacency list and every reverse adjacency list are
\* what the database yields with the FK rows of T left out.
C12_FailedTableOnlyLosesItsOwnEdges ==
    (IsInitialize /\ last.built /\ last.fault.kind = "fks") =>
        LET edges == DeclaredEdges(1, last.fault.table)
        IN  /\ initialized
            /\ ~last.raised
            /\ relationships = edges
            /\ \A t \in TableNames :
                   /\ ListAt(graph, t) = ForwardListOf(edges, t)
                   /\ ListAt(reverse_graph, t) = ReverseListOf(edges, t)

\* the fetch failed for orders, which declares a well-formed FK, and
\* orders_lines, visited after it, declares one too
C12_Witness ==
    /\ IsInitialize
    /\ last.built
    /\ last.fault = [kind |-> "fks", table |-> "orders"]
    /\ DeclaredRows("orders") # <<>>
    /\ DeclaredRows("orders_lines") # <<>>
    /\ relationships # <<>>

----------------------------------------------------------------------------
(* C13: malformed FK rows. *)

\* the FK row was returned to the build by get_foreign_keys
Fetched(fk, fault) ==
    fk.table \in ListedNames /\ fault # [kind |-> "fks", table |-> fk.table]

\* the fetched well-formed rows of the catalog, as catalog positions
FetchedWellFormed(fault) ==
    {i \in DOMAIN catalog :
        WellFormed(catalog[i]) /\ Fetched(catalog[i], fault)}

\* C13: after a build that fetched an FK row lacking its referred table, its
\* constrained column or its referred column, the build has completed
\* without raising; the forward adjacency of the row's table, every reverse
\* adjacency list and the relationship list hold one entry per fetched
\* well-formed row and nothing else (no key outside the tables either); and
\* every well-formed row that follows the malformed one in the same table
\* has its forward entry, its mirror entry and its relationship entry.
C13_MalformedRowsAddNothing ==
    (IsInitialize /\ last.built) =>
        \A i \in DOMAIN catalog :
            (~WellFormed(catalog[i]) /\ Fetched(catalog[i], last.fault)) =>
                /\ initialized
                /\ ~last.raised
                /\ Len(ListAt(graph, catalog[i].table)) =
                       Cardinality({j \in FetchedWellFormed(last.fault) :
                                       catalog[j].table = catalog[i].table})
                /\ DOMAIN graph \subseteq ListedNames
                /\ DOMAIN reverse_graph \subseteq TableNames
                /\ \A t \in TableNames :
                       Len(ListAt(reverse_graph, t)) =
                           Cardinality({j \in FetchedWellFormed(last.fault) :
                                           catalog[j].referred_table = t})
                /\ Len(relationships) =
                       Cardinality(FetchedWellFormed(last.fault))
                /\ \A j \in DOMAIN catalog :
                       (/\ j > i
                        /\ catalog[j].table = catalog[i].table
                        /\ WellFormed(catalog[j]))
                           => EdgesOnce(catalog[j])

\* a table whose FK rows are one without constrained column, one without
\* referred column and then a well-formed one, which has its edges
C13_Witness ==
    /\ IsInitialize
    /\ last.built
    /\ last.fault = NoFault
    /\ \E i, j, k \in DOMAIN catalog :
           /\ i < j
           /\ j < k
           /\ catalog[i].table = catalog[k].table
           /\ catalog[j].table = catalog[k].table
           /\ catalog[i].constrained_columns = <<>>
           /\ catalog[j].referred_columns = <<>>
           /\ WellFormed(catalog[k])
           /\ EdgesOnce(catalog[k])
           /\ Len(relationships) = 1

----------------------------------------------------------------------------
(* C14: the relevance score. *)

IsExplore == last.op = "explore_k_hop_neighborhood"

\* the call returned a ranking, not an error value
Ranked == IsExplore /\ "neighbors" \in DOMAIN last.result

\* the whitespace-separated lowercased tokens of the query text, in text
\* order, a repeated word as often as it is written
QueryTokens == split(lower(last.user_query.text), 1, <<>>)

\* the distinct tokens of the query text
DistinctTokens ==
    LET tokens == QueryTokens IN {tokens[j] : j \in DOMAIN tokens}

\* a token of more than three characters that is a substring of the name
StrongMatch(token, name) == Len(token) > 3 /\ is_substring(token, name)

\* a token of more than three characters that is not a substring of the
\* name but contains it
WeakMatch(token, name) ==
    Len(token) > 3 /\ ~is_substring(token, name) /\ is_substring(name, token)

\* what level, cardinality and confidence of the edge add to a score
EdgePoints(neighbor) ==
    (IF neighbor.relationship.cardinality = "many_to_one" THEN 15 ELSE 0)
    + 10 * neighbor.relationship.confidence
    - 10 * neighbor.level

\* C14 as stated: the score of every returned neighbor is the sum over
\* each token of the query text, a repeated token counted each time it is
\* written, of 50 for a token inside the lowercased table name and 30 for a
\* token that contains it, minus 10 per level, plus 15 for a many_to_one
\* edge, plus 10 times the confidence of the edge.
C14_ScoreSumsEveryToken ==
    Ranked =>
        LET tokens == QueryTokens
        IN  \A i \in DOMAIN last.result.neighbors :
                LET neighbor == last.result.neighbors[i]
                    name == lower(Characters(neighbor.table))
                IN  neighbor.relevance_score =
                        50 * Cardinality({j \in DOMAIN tokens :
                                             StrongMatch(tokens[j], name)})
                        + 30 * Cardinality({j \in DOMAIN tokens :
                                               WeakMatch(tokens[j], name)})
                        + EdgePoints(neighbor)

\* C14 amended: the same sum taken over the distinct tokens of the query
\* text, a repeated token counted once.
C14_ScoreSumsDistinctTokens ==
    Ranked =>
        LET distinct == DistinctTokens
        IN  \A i \in DOMAIN last.result.neighbors :
                LET neighbor == last.result.neighbors[i]
                    name == lower(Characters(neighbor.table))
                IN  neighbor.relevance_score =
                        50 * Cardinality({t \in distinct : StrongMatch(t, name)})
                        + 30 * Cardinality({t \in distinct : WeakMatch(t, name)})
                        + EdgePoints(neighbor)

\* "Orders<tab>clients_orders" ranked orders, reached at level 1 over a
\* many_to_one edge: 50 for orders, 30 for clients_orders, 15 + 10 - 10
C14_Witness ==
    /\ Ranked
    /\ last.user_query = QueryMixed
    /\ \E i \in DOMAIN last.result.neighbors :
           /\ last.result.neighbors[i].table = "orders"
           /\ last.result.neighbors[i].level = 1
           /\ last.result.neighbors[i].relationship.cardinality = "many_to_one"
           /\ last.result.neighbors[i].relevance_score = 95

----------------------------------------------------------------------------
(* C15: the order and the length of the ranked list. *)

RECURSIVE EntriesBelow(_)
\* how many entries the per-level breakdown of the result holds at the
\* levels below level
EntriesBelow(level) ==
    IF level <= 1 THEN 0
    ELSE EntriesBelow(level - 1)
         + (IF level - 1 \in DOMAIN last.result.neighbors_by_level
            THEN Len(last.result.neighbors_by_level[level - 1]) ELSE 0)

\* the (level, position) pairs of the per-level breakdown: the flattened
\* traversal output
Discovered ==
    UNION {{<<level, i>> : i \in DOMAIN last.result.neighbors_by_level[level]} :
              level \in DOMAIN last.result.neighbors_by_level}

\* the place of a discovered entry in the flattened traversal output: lower
\* levels first, discovery order within a level
FlatPlace(p) == EntriesBelow(p[1]) + p[2]

\* the score of a discovered entry, distinct being the distinct tokens of
\* the query
ScoreOf(p, distinct) ==
    LET entry == last.result.neighbors_by_level[p[1]][p[2]]
        name == lower(Characters(entry.table))
    IN  50 * Cardinality({t \in distinct : StrongMatch(t, name)})
        + 30 * Cardinality({t \in distinct : WeakMatch(t, name)})
        + EdgePoints([level |-> p[1], relationship |-> entry.relationship])

\* the discovered entry a ranked neighbor stands for
EntryOf(neighbor) ==
    CHOOSE p \in Discovered :
        /\ p[1] = neighbor.level
        /\ last.result.neighbors_by_level[p[1]][p[2]].table = neighbor.table

\* the discovered entries the ranked list returns
Returned ==
    {EntryOf(last.result.neighbors[i]) : i \in DOMAIN last.result.neighbors}

\* C15: the ranked list names discovered entries, each at most once, with
\* their level and edge; scores never increase along it; of two returned
\* neighbors with equal scores the one earlier in the flattened traversal
\* output (lower level first, then discovery order) comes first; every
\* omitted entry has a lower score than every returned one, or an equal
\* score and a later place; total_found counts the discovered entries and
\* returned the list; and the list has min(max_tables, total_found) entries
\* (max_tables >= 0).
C15_SortedStableTruncated ==
    Ranked =>
        LET ranked == last.result.neighbors
            distinct == DistinctTokens
            entry == [i \in DOMAIN ranked |-> EntryOf(ranked[i])]
            score == [p \in Discovered |-> ScoreOf(p, distinct)]
        IN  /\ \A i \in DOMAIN ranked :
                   /\ \E p \in Discovered :
                          /\ p[1] = ranked[i].level
                          /\ last.result.neighbors_by_level[p[1]][p[2]] =
                                 [table |-> ranked[i].table,
                                  relationship |-> ranked[i].relationship]
                   /\ ranked[i].relevance_score = score[entry[i]]
            /\ \A i, j \in DOMAIN ranked :
                   i < j =>
                       /\ entry[i] # entry[j]
                       /\ ranked[i].relevance_score >= ranked[j].relevance_score
                       /\ ranked[i].relevance_score = ranked[j].relevance_score
                              => FlatPlace(entry[i]) < FlatPlace(entry[j])
            /\ \A o \in Discovered \ Returned, r \in Returned :
                   \/ score[o] < score[r]
                   \/ score[o] = score[r] /\ FlatPlace(o) > FlatPlace(r)
            /\ last.result.total_found = Cardinality(Discovered)
            /\ last.result.returned = Len(ranked)
            /\ last.max_tables >= 0 =>
                   Len(ranked) = IF last.max_tables < last.result.total_found
                                 THEN last.max_tables
                                 ELSE last.result.total_found

\* a list cut to two neighbors of equal score, a third of lower score
\* left out
C15_Witness ==
    /\ Ranked
    /\ last.max_tables = 2
    /\ last.result.returned = 2
    /\ last.result.total_found > 2
    /\ last.result.neighbors[1].relevance_score
           = last.result.neighbors[2].relevance_score
    /\ \E o \in Discovered \ Returned :
           ScoreOf(o, DistinctTokens) < last.result.neighbors[2].relevance_score

----------------------------------------------------------------------------
(* C16: the ranking does not depend on the order the term set is read in. *)

\* C16: whatever order the returned value was computed in, the same call
\* on the graph as it stands after the call (same start table, query text,
\* k and max_tables) returns the same value - the same neighbors in the
\* same order with the same scores - for every order in which the set of
\* query terms can be iterated.
C16_SameRankingInEveryTermOrder ==
    IsExplore =>
        \A terms \in iteration_orders(last.user_query) :
            explore_k_hop_neighborhood(last.start_table, last.user_query,
                                       last.k, last.max_tables, terms)
                = last.result

\* a ranking over a query with several orders of its terms, holding a
\* neighbor that one term matches strongly and another weakly
C16_Witness ==
    /\ Ranked
    /\ Cardinality(iteration_orders(last.user_query)) > 1
    /\ \E i \in DOMAIN last.result.neighbors :
           LET name == lower(Characters(last.result.neighbors[i].table))
           IN  /\ \E t \in DistinctTokens : StrongMatch(t, name)
               /\ \E t \in DistinctTokens : WeakMatch(t, name)

----------------------------------------------------------------------------
(* C20: the ranking call never raises. *)

\* the well-formed result that ranks nothing
EmptyRanking(start_table, k) ==
    [start_table |-> start_table, k |-> k, total_found |-> 0, returned |-> 0,
     neighbors |-> <<>>, neighbors_by_level |-> EmptyMap]

\* C20: explore_k_hop_neighborhood always returns a value, it never
\* raises; the value is an error value exactly when an exception occurred
\* inside the call (the query was not a text); otherwise, on a graph that
\* is not initialized or for a start table without metadata, it is the
\* well-formed result with an empty neighbors list, total_found = 0,
\* returned = 0 and an empty per-level breakdown.
C20_ExploreNeverRaises ==
    IsExplore =>
        /\ "raised" \notin DOMAIN last.result
        /\ last.user_query.is_none <=> DOMAIN last.result = {"error"}
        /\ (/\ ~last.user_query.is_none
            /\ ~initialized \/ last.start_table \notin DOMAIN table_metadata)
               => last.result = EmptyRanking(last.start_table, last.k)

\* a ranking asked for a table that FK edges reach but that has no
\* metadata, on an initialized graph
C20_Witness ==
    /\ IsExplore
    /\ initialized
    /\ ~last.user_query.is_none
    /\ last.start_table \notin DOMAIN table_metadata
    /\ ListAt(reverse_graph, last.start_table) # <<>>
    /\ last.result.neighbors = <<>>

\* a ranking asked before the graph was built
C20_WitnessUninitialized ==
    IsExplore /\ ~initialized /\ ~last.user_query.is_none

\* a ranking asked without a query text
C20_WitnessError ==
    IsExplore /\ last.user_query.is_none /\ "error" \in DOMAIN last.result

----------------------------------------------------------------------------
(* C17: reads change nothing. *)

ReadOperations ==
    {"get_k_hop_neighbors", "get_path_between_tables", "get_connected_tables",
     "get_table_info", "get_graph_stats", "get_all_relationships",
     "explore_k_hop_neighborhood"}

\* C17: every step in which a read operation is called - a traversal, a
\* path search, an accessor or the ranking call, with whatever arguments,
\* table names without any entry included - leaves the forward adjacency,
\* the reverse adjacency (their sets of keys included), the table metadata,
\* the relationship list and the initialized flag as they were.
C17_ReadsChangeNothing ==
    [][(last.op = "idle" /\ last'.op \in ReadOperations)
           => UNCHANGED <<graph, reverse_graph, table_metadata,
                          relationships, initialized>>]_vars

\* a traversal has expanded a table that has no key in the forward
\* adjacency, and none has appeared
C17_Witness ==
    /\ IsKHop
    /\ last.bidirectional
    /\ \E i \in DOMAIN last.expansions :
           /\ last.expansions[i].parent \notin DOMAIN graph
           /\ last.expansions[i].parent \in DOMAIN reverse_graph

----------------------------------------------------------------------------
(* C18: the graph statistics. *)

IsStats == last.op = "get_graph_stats"

C18_WitnessNoTables ==
    IsStats /\ last.result.tables_count = 0

----------------------------------------------------------------------------
(* C19: the traversals terminate. *)

RECURSIVE RecordedFrom(_, _)
\* the tables a traversal appended to its queue, in order, from the i-th
\* expansion on
RecordedFrom(expansions, i) ==
    IF i > Len(expansions) THEN <<>>
    ELSE expansions[i].recorded \o RecordedFrom(expansions, i + 1)

\* no table twice in the list, and not the table the search started from
EnqueuedOnce(enqueued, start) ==
    /\ \A i, j \in DOMAIN enqueued : enqueued[i] = enqueued[j] => i = j
    /\ \A i \in DOMAIN enqueued : enqueued[i] # start

\* the tables of the graph
GraphTables ==
    DOMAIN table_metadata \cup DOMAIN graph \cup DOMAIN reverse_graph

\* C19: a call of get_k_hop_neighbors or get_path_between_tables has
\* returned after a number of passes of its loop that is at most the number
\* of tables of the graph: every table was appended to the queue at most
\* once (the start table only initially), every pass took one entry from
\* the queue, and the traversal ended with every entry taken.
C19_TraversalsTerminate ==
    /\ IsKHop =>
           LET enqueued == RecordedFrom(last.expansions, 1)
           IN  /\ EnqueuedOnce(enqueued, last.start_table)
               /\ initialized /\ last.start_table \in DOMAIN table_metadata
                      => last.iterations = 1 + Len(enqueued)
               /\ last.iterations <= Cardinality(GraphTables)
    /\ IsPath =>
           /\ EnqueuedOnce(last.enqueued, last.table_a)
           /\ last.iterations <= 1 + Len(last.enqueued)
           /\ (/\ ~last.result.found
               /\ initialized
               /\ last.table_a \in DOMAIN table_metadata
               /\ last.table_b \in DOMAIN table_metadata)
                  => last.iterations = 1 + Len(last.enqueued)
           /\ last.iterations <= Cardinality(GraphTables)

\* a path search that gave up after it had walked a graph with a
\* self-referencing table and an FK cycle
C19_Witness ==
    /\ IsPath
    /\ ~last.result.found
    /\ Len(last.enqueued) >= 2
    /\ last.iterations = 1 + Len(last.enqueued)
    /\ \E i \in DOMAIN relationships :
           /\ relationships[i].from_table = relationships[i].to_table
           /\ relationships[i].from_table = last.table_a
    /\ \E i, j \in DOMAIN last.enqueued :
           /\ i # j
           /\ last.enqueued[j] \in Linked(last.enqueued[i])

----------------------------------------------------------------------------
(* C21: what the fan-out cap keeps. *)

\* the row count the graph holds for a table: the row_count of its metadata
\* entry, 0 for a table without one
RowCountOf(t) ==
    IF t \in DOMAIN table_metadata THEN table_metadata[t].row_count ELSE 0

\* how many entries of the list of candidates s are the pair x
Occurrences(s, x) == Cardinality({i \in DOMAIN s : s[i] = x})

\* the candidates of an expansion that the cap dropped: the positions of
\* the candidate list beyond the occurrences that were kept
DroppedCandidates(e) ==
    {x \in {e.candidates[i] : i \in DOMAIN e.candidates} :
        Occurrences(e.kept, x) < Occurrences(e.candidates, x)}

\* C21: when an expanded node has more candidate edges than
\* max_neighbors_per_level, the kept candidates are max_neighbors_per_level
\* of them, no dropped candidate has a strictly larger row count than a kept
\* one, and only tables of kept candidates are recorded from the node.
C21_CapKeepsHighestRowCounts ==
    IsKHop =>
        \A i \in DOMAIN last.expansions :
            LET e == last.expansions[i]
            IN  Len(e.candidates) > last.max_neighbors_per_level =>
                  /\ Len(e.kept) = last.max_neighbors_per_level
                  /\ \A x \in {e.kept[j] : j \in DOMAIN e.kept} :
                         Occurrences(e.kept, x) <= Occurrences(e.candidates, x)
                  /\ \A d \in DroppedCandidates(e) :
                         \A j \in DOMAIN e.kept :
                             RowCountOf(d[1]) <= RowCountOf(e.kept[j][1])
                  /\ \A j \in DOMAIN e.recorded :
                         e.recorded[j] \in BucketTables(e.kept)

\* a node with three candidate tables and cap 2: the candidate discovered
\* last has the largest row count and is kept, the one with the smallest
\* row count, discovered before it, is dropped
C21_Witness ==
    /\ IsKHop
    /\ last.max_neighbors_per_level = 2
    /\ \E i \in DOMAIN last.expansions :
        LET e == last.expansions[i]
        IN  /\ Len(e.candidates) = 3
            /\ Cardinality(BucketTables(e.candidates)) = 3
            /\ Len(e.recorded) = 2
            /\ \E d \in DroppedCandidates(e) :
                   /\ d # e.candidates[3]
                   /\ RowCountOf(d[1]) < RowCountOf(e.candidates[3][1])

----------------------------------------------------------------------------
(* C22: a candidate the cap dropped can still be reached another way. *)

\* the tables that expansion e had as candidates and did not keep
DroppedTables(e) == BucketTables(e.candidates) \ BucketTables(e.kept)

\* the expansions of the log that kept table t as a surviving candidate
Keepers(expansions, t) ==
    {j \in DOMAIN expansions : t \in BucketTables(expansions[j].kept)}

\* the levels of the result in whose bucket table t is
LevelsOf(result, t) == {L \in DOMAIN result : t \in BucketTables(result[L])}

\* the least of a non-empty set of positions
First(positions) == CHOOSE j \in positions : \A n \in positions : j <= n

C22_WitnessAbsent ==
    /\ IsKHop
    /\ \E i \in DOMAIN last.expansions :
        \E t \in DroppedTables(last.expansions[i]) \ {last.start_table} :
            /\ Keepers(last.expansions, t) = {}
            /\ t \in Ball(last.start_table, last.k)
            /\ LevelsOf(last.result, t) = {}

----------------------------------------------------------------------------
(* C23: a traversal that is not bidirectional. *)

\* the tables that the FKs declared by table t refer to
ForwardLinked(t) ==
    {relationships[i].to_table :
        i \in {j \in DOMAIN relationships : relationships[j].from_table = t}}

RECURSIVE ForwardBall(_, _)
\* the tables within d hops of a along declared FK directions only
ForwardBall(a, d) ==
    IF d <= 0 THEN {a}
    ELSE LET B == ForwardBall(a, d - 1)
         IN  B \cup UNION {ForwardLinked(t) : t \in B}

\* C23: with bidirectional = false every returned (table, edge) pair has
\* edge.cardinality = many_to_one and table = edge.to_table, and every
\* returned table is reachable from start_table along declared FK
\* directions: a table reachable only through a reverse edge is not returned.
C23_ForwardOnly ==
    (IsKHop /\ ~last.bidirectional) =>
        \A L \in DOMAIN last.result :
            \A i \in DOMAIN last.result[L] :
                LET table == last.result[L][i][1]
                    edge == last.result[L][i][2]
                IN  /\ edge.cardinality = "many_to_one"
                    /\ table = edge.to_table
                    /\ table \in ForwardBall(last.start_table, L)

\* a forward-only traversal with k = 2 that returned a table and left out a
\* table whose FK refers to start_table
C23_Witness ==
    /\ IsKHop
    /\ ~last.bidirectional
    /\ last.k = 2
    /\ 1 \in DOMAIN last.result
    /\ \E t \in Linked(last.start_table) :
           /\ t \notin ForwardBall(last.start_table, last.k)
           /\ \A L \in DOMAIN last.result : t \notin BucketTables(last.result[L])

----------------------------------------------------------------------------
(* C24: the edge recorded with a table. *)

\* the tables recorded one level before L: start_table before level 1
RecordedBefore(L) ==
    IF L = 1 THEN {last.start_table}
    ELSE IF (L - 1) \in DOMAIN last.result
    THEN BucketTables(last.result[L - 1])
    ELSE {}

\* edge is one of the FK relationships of the graph, in either tagging
IsFKRelationship(edge) ==
    \E i \in DOMAIN relationships :
        edge \in {relationships[i], ReverseRelationship(relationships[i])}

\* C24: for every (table, edge) pair recorded at level L the edge is one FK
\* relationship of the graph whose endpoints are that table and a table
\* recorded at level L - 1 (start_table when L = 1); its cardinality is
\* many_to_one when the table is the edge's to_table (reached along the
\* declared direction) and one_to_many when the table is its from_table
\* (reached against it).
C24_EdgeJoinsTableToParent ==
    IsKHop =>
        \A L \in DOMAIN last.result :
            \A i \in DOMAIN last.result[L] :
                LET table == last.result[L][i][1]
                    edge == last.result[L][i][2]
                IN  /\ IsFKRelationship(edge)
                    /\ \/ /\ edge.cardinality = "many_to_one"
                          /\ edge.to_table = table
                          /\ edge.from_table \in RecordedBefore(L)
                       \/ /\ edge.cardinality = "one_to_many"
                          /\ edge.from_table = table
                          /\ edge.to_table \in RecordedBefore(L)

\* a traversal that recorded, at level 2, one table reached along the
\* declared direction or against it from a table of level 1 that was itself
\* reached the other way
C24_Witness ==
    /\ IsKHop
    /\ 2 \in DOMAIN last.result
    /\ \E i \in DOMAIN last.result[1], j \in DOMAIN last.result[2] :
        /\ last.result[1][i][2].cardinality # last.result[2][j][2].cardinality
        /\ last.result[1][i][1] \in
               {last.result[2][j][2].from_table, last.result[2][j][2].to_table}

----------------------------------------------------------------------------
(* C25: a returned path is a chain. *)

\* the marker of a path whose next edge does not touch the table reached
Broken == "broken"

RECURSIVE ChainFrom(_, _, _)
\* the tables t0, t1, ... met when the edges of path are walked from the
\* i-th on, each edge left by its other endpoint; tables is the chain so
\* far.  The chain ends with Broken when an edge does not touch the table
\* reached before it.
ChainFrom(path, i, tables) ==
    IF i > Len(path) THEN tables
    ELSE LET at == tables[Len(tables)]
             edge == path[i]
         IN  IF edge.from_table = at
             THEN ChainFrom(path, i + 1, Append(tables, edge.to_table))
             ELSE IF edge.to_table = at
             THEN ChainFrom(path, i + 1, Append(tables, edge.from_table))
             ELSE Append(tables, Broken)

\* C25: a path returned by get_path_between_tables(a, b, max_depth) is a
\* connected chain from a to b: walked from a, every edge touches the table
\* reached by the edge before it and is an FK relationship of the graph
\* (taken in either direction), the walk ends at b, and no table is met
\* twice.
C25_PathIsChain ==
    (IsPath /\ last.result.found) =>
        LET path == last.result.path
            chain == ChainFrom(path, 1, <<last.table_a>>)
        IN  /\ Len(chain) = Len(path) + 1
            /\ chain[1] = last.table_a
            /\ chain[Len(chain)] = last.table_b
            /\ \A i \in DOMAIN chain : chain[i] # Broken
            /\ \A i, j \in DOMAIN chain : chain[i] = chain[j] => i = j
            /\ \A i \in DOMAIN path : IsFKRelationship(path[i])

\* Scenario 2's shape: a returned path of two edges, the first walked
\* against the declared direction and the second along it
C25_Witness ==
    /\ IsPath
    /\ last.result.found
    /\ Len(last.result.path) = 2
    /\ last.result.path[1].to_table = last.table_a
    /\ last.result.path[2].to_table = last.table_b
    /\ last.result.path[1].cardinality = "one_to_many"
    /\ last.result.path[2].cardinality = "many_to_one"

----------------------------------------------------------------------------
(* C26: returned tables and the metadata map. *)

\* C26: every table that get_k_hop_neighbors returns in a level bucket has
\* an entry in table_metadata, so that it is accepted as a start_table.
C26_ReturnedTablesHaveMetadata ==
    IsKHop =>
        \A L \in DOMAIN last.result :
            \A t \in BucketTables(last.result[L]) :
                get_table_info(t) # NoInfo

----------------------------------------------------------------------------
(* C27: the fan-out cap and the candidates that would not be recorded. *)

\* the tables visited when the i-th expansion of the log began: start_table
\* and the tables recorded by the expansions before it
VisitedBefore(i) ==
    {last.start_table}
    \cup UNION {{last.expansions[j].recorded[n] :
                    n \in DOMAIN last.expansions[j].recorded} :
                j \in 1..(i - 1)}

\* C27: whenever an expanded node has at least max_neighbors_per_level
\* distinct neighbor tables that are not yet visited, exactly
\* max_neighbors_per_level new tables are recorded from it.
C27_CapOnlyRemovesSurplus ==
    IsKHop =>
        \A i \in DOMAIN last.expansions :
            LET e == last.expansions[i]
                fresh == BucketTables(e.candidates) \ VisitedBefore(i)
            IN  Cardinality(fresh) >= last.max_neighbors_per_level
                    => Len(e.recorded) = last.max_neighbors_per_level

----------------------------------------------------------------------------
(* C30: the path from a table to itself. *)

\* C30: on an initialized graph, for a table a that has a metadata entry,
\* get_path_between_tables(a, a, max_depth) returns the empty path, which is
\* not "not found", for every max_depth >= 1, and "not found" when
\* max_depth <= 0.
C30_PathToItself ==
    (/\ IsPath
     /\ initialized
     /\ last.table_a = last.table_b
     /\ last.table_a \in DOMAIN table_metadata) =>
        /\ last.max_depth >= 1 => (last.result = Found(<<>>) /\ last.result # NotFound)
        /\ last.max_depth <= 0 => last.result = NotFound

\* the empty path returned for a table that has FK edges, with max_depth 1
C30_Witness ==
    /\ IsPath
    /\ initialized
    /\ last.table_a = last.table_b
    /\ Linked(last.table_a) # {}
    /\ last.max_depth = 1
    /\ last.result.found
    /\ last.result.path = <<>>

\* "not found" for the same table with max_depth 0
C30_WitnessZeroDepth ==
    /\ IsPath
    /\ initialized
    /\ last.table_a = last.table_b
    /\ last.table_a \in DOMAIN table_metadata
    /\ Linked(last.table_a) # {}
    /\ last.max_depth = 0
    /\ last.result = NotFound

----------------------------------------------------------------------------
(* C29: a token repeated in the query. *)

\* "orders": the word of QueryOrdersTwice written once
QueryOrders == Text(<<"o", "r", "d", "e", "r", "s">>)

\* C29: a token repeated in the query text counts once.  What a call with
\* the query "orders orders" returns, every score and the ranked list, is
\* what the call with the same start table, k and max_tables returns for
\* the query "orders".
C29_RepeatedTokenCountsOnce ==
    (IsExplore /\ last.user_query = QueryOrdersTwice) =>
        \A terms \in iteration_orders(QueryOrders) :
            last.result = explore_k_hop_neighborhood(
                              last.start_table, QueryOrders, last.k,
                              last.max_tables, terms)

\* a call with "orders orders" that ranked two neighbors, one whose name
\* contains the token and one whose name does not
C29_Witness ==
    /\ IsExplore
    /\ last.user_query = QueryOrdersTwice
    /\ Len(last.result.neighbors) = 2
    /\ \E i, j \in DOMAIN last.result.neighbors :
        /\ is_substring(Characters("orders"),
                        Characters(last.result.neighbors[i].table))
        /\ ~is_substring(Characters("orders"),
                         Characters(last.result.neighbors[j].table))
        /\ last.result.neighbors[i].relevance_score
               >= last.result.neighbors[j].relevance_score + 50

----------------------------------------------------------------------------
(* C28: traversals that interleave with a running initialize(). *)

\* a traversal has just returned to a caller while initialize() is running
ObservedDuringBuild == IsRunning /\ "observed" \in DOMAIN last

\* a traversal returned something other than the empty mapping / None
ReturnedSomething(call) ==
    \/ call.op = "get_k_hop_neighbors" /\ call.result # EmptyMap
    \/ call.op = "get_path_between_tables" /\ call.result # NotFound

\* C28: a traversal that returns while initialize() is still running returns
\* the empty mapping (get_k_hop_neighbors) or None
\* (get_path_between_tables); a traversal that returns anything else was
\* called with the flag raised, and from the moment the flag is raised no
\* step changes graph, reverse_graph, table_metadata or relationships: the
\* structures it read are the final ones.
C28_NoResultFromPartialGraph ==
    /\ [](ObservedDuringBuild => ~ReturnedSomething(last.observed))
    /\ []((IsKHop \/ IsPath) /\ ReturnedSomething(last) =>
              initialized /\ ~IsRunning)
    /\ [][initialized =>
              UNCHANGED <<graph, reverse_graph, table_metadata, relationships>>]_vars

\* get_k_hop_neighbors returned the empty mapping while the relationships
\* loop was under way, for a start table that already had its metadata and
\* an edge in the graph
C28_Witness ==
    /\ ObservedDuringBuild
    /\ last.phase = "relationships"
    /\ last.i <= Len(last.tables)
    /\ last.observed.op = "get_k_hop_neighbors"
    /\ last.observed.start_table \in DOMAIN table_metadata
    /\ last.observed.start_table \in DOMAIN graph
    /\ last.observed.result = EmptyMap

\* a traversal after the build returned a path of two edges
C28_WitnessAfterBuild ==
    /\ IsPath
    /\ initialized
    /\ last.result.found
    /\ Len(last.result.path) = 2
=============================================================================
